---- MODULE Spec2Model ----
(***************************************************************************)
(* A model of the tween core of the Wick engine: Wick.Tween                *)
(* (src/engine/src/base/Tween.js), and of the playback, focus, loading     *)
(* and image-sequence operations of Wick.Project (src/unnamed/part_001).   *)
(*                                                                         *)
(* JavaScript numbers are modelled as exact rationals (num/den, den > 0,   *)
(* lowest terms), so that the divisions and products of interpolate are    *)
(* computed, not approximated.  Floating-point rounding is not modelled.   *)
(* Wick.Transformation objects live in a heap of named slots, so that      *)
(* sharing an object and copying it are different things.                  *)
(***************************************************************************)
EXTENDS Integers, Sequences, FiniteSets, TLC

\* tweens, transformations and the record of the last call
VARIABLES tweenA, tweenB, interpTween, heap, clip, data, call, sweep
\* Wick.Project: the tick interval, and the timers of the window
VARIABLES tickIntervalID, timers, lastTimerID, tickLog, keysDown, keysLastDown
\* Wick.Project: focus, view and selection; the playhead of each clip's timeline
VARIABLES focus, pan, zoom, selection, playhead
\* Wick.Project.fromWickFile: the file, the promises under way, the calls of
\* the callback, the file cache
VARIABLES wickFile, loadStep, assetStep, loadedAssetCount, callbacks, fileCache
\* Wick.Project.generateImageSequence: the clone that is rendered, the images
\* loaded so far, paper.view.autoUpdate, and the calls of callback
VARIABLES renderProject, frameImages, autoUpdate, renderCallbacks

tweenVars == <<tweenA, tweenB, interpTween, heap, clip, data, sweep>>
playVars == <<tickIntervalID, timers, lastTimerID, tickLog, keysDown, keysLastDown>>
focusVars == <<focus, pan, zoom, selection, playhead>>
loadVars == <<wickFile, loadStep, assetStep, loadedAssetCount, callbacks, fileCache>>
renderVars == <<renderProject, frameImages, autoUpdate, renderCallbacks>>
projectVars == <<playVars, focusVars, loadVars, renderVars>>

vars == <<tweenVars, call, projectVars>>

(* ------------------------------------------------------------------ *)
(* Bounds                                                               *)
(* ------------------------------------------------------------------ *)
\* the largest playhead position of a tween or of a query
MaxPos == 4
\* the largest fullRotations of a start tween
MaxFullRotations == 1
\* the number of timers the window hands out (of calls of play)
MaxTimers == 3
\* the number of firings of the tick interval after one call of play
MaxTicks == 2
\* the largest number of assets of a project file
MaxAssets == 2

(* ------------------------------------------------------------------ *)
(* JavaScript values                                                    *)
(* ------------------------------------------------------------------ *)
\* the value of a property that was never assigned (an easingType only)
Undefined == "undefined"
\* no object: an empty slot, an absent tween
NoObject == [absent |-> TRUE]

Abs(n) == IF n < 0 THEN -n ELSE n

RECURSIVE GCD(_, _)
GCD(a, b) == IF b = 0 THEN a ELSE GCD(b, a % b)

\* the number n/d (d # 0) in lowest terms with a positive denominator
Rat(n, d) ==
    LET g == GCD(Abs(n), Abs(d))
        s == IF d < 0 THEN -1 ELSE 1
    IN  [num |-> (s * n) \div g, den |-> (s * d) \div g]

Num(n) == [num |-> n, den |-> 1]
RAdd(a, b) == Rat(a.num * b.den + b.num * a.den, a.den * b.den)
RSub(a, b) == Rat(a.num * b.den - b.num * a.den, a.den * b.den)
RMul(a, b) == Rat(a.num * b.num, a.den * b.den)
RDiv(a, b) == Rat(a.num * b.den, a.den * b.num)
RLt(a, b) == a.num * b.den < b.num * a.den
RLe(a, b) == a.num * b.den <= b.num * a.den

(* ------------------------------------------------------------------ *)
(* Wick.Transformation                                                  *)
(* ------------------------------------------------------------------ *)
\* the channels of a transformation, as interpolate lists them
PropNames == {"x", "y", "scaleX", "scaleY", "rotation", "opacity"}

\* new Wick.Transformation(args): a channel that is undefined in args takes
\* its default (position 0, scale 1, rotation 0, opacity 1)
Transformation(args) ==
    LET get(p, dflt) == IF p \in DOMAIN args THEN args[p] ELSE dflt
    IN  [x        |-> get("x", Num(0)),
         y        |-> get("y", Num(0)),
         scaleX   |-> get("scaleX", Num(1)),
         scaleY   |-> get("scaleY", Num(1)),
         rotation |-> get("rotation", Num(0)),
         opacity  |-> get("opacity", Num(1))]

\* an args object without properties
NoArgs == [none |-> TRUE]

\* transformation.values: a new plain object holding the six channels
TransformationValues(tr) ==
    [x |-> tr.x, y |-> tr.y, scaleX |-> tr.scaleX, scaleY |-> tr.scaleY,
     rotation |-> tr.rotation, opacity |-> tr.opacity]

\* transformation.clone(): a new Transformation built from the values
TransformationClone(tr) == Transformation(TransformationValues(tr))

(* ------------------------------------------------------------------ *)
(* Wick.Tween                                                           *)
(* ------------------------------------------------------------------ *)
VALID_EASING_TYPES == {"none", "in", "out", "in-out"}

\* the easingType setter: the new value of _easingType
SetEasingType(old, easingType) ==
    IF easingType \notin VALID_EASING_TYPES THEN old ELSE easingType

\* the fields the constructor assigns; ref is the slot of the tween's
\* transformation (args.transformation, or that of a new Transformation)
TweenConstructor(args, ref) ==
    [playheadPosition |-> IF "playheadPosition" \notin DOMAIN args \/ args.playheadPosition = 0
                          THEN 1 ELSE args.playheadPosition,
     transformation   |-> ref,
     fullRotations    |-> IF "fullRotations" \notin DOMAIN args
                          THEN 0 ELSE args.fullRotations,
     easingType       |-> SetEasingType(Undefined,
                              IF "easingType" \notin DOMAIN args \/ args.easingType = ""
                              THEN "none" ELSE args.easingType)]

\* TWEEN.Easing.Linear.None
EasingLinearNone(k) == k
\* TWEEN.Easing.Quadratic.In
EasingQuadraticIn(k) == RMul(k, k)
\* TWEEN.Easing.Quadratic.Out
EasingQuadraticOut(k) == RMul(k, RSub(Num(2), k))
\* TWEEN.Easing.Quadratic.InOut
EasingQuadraticInOut(k) ==
    LET k2 == RMul(k, Num(2))
        k3 == RSub(k2, Num(1))
    IN  IF RLt(k2, Num(1))
        THEN RMul(Rat(1, 2), RMul(k2, k2))
        ELSE RMul(Rat(-1, 2), RSub(RMul(k3, RSub(k3, Num(2))), Num(1)))

\* a variant of TweenFunction: 'none' bound to the quadratic ease-in
TweenFunction_NoneQuadratic(easingType, t) ==
    CASE easingType = "none"   -> EasingQuadraticIn(t)
      [] easingType = "in"     -> EasingQuadraticIn(t)
      [] easingType = "out"    -> EasingQuadraticOut(t)
      [] easingType = "in-out" -> EasingQuadraticInOut(t)

\* tween._getTweenFunction() applied to t
TweenFunction(easingType, t) ==
    CASE easingType = "none"   -> EasingLinearNone(t)
      [] easingType = "in"     -> EasingQuadraticIn(t)
      [] easingType = "out"    -> EasingQuadraticOut(t)
      [] easingType = "in-out" -> EasingQuadraticInOut(t)

getTweenFunction(tween, t) == TweenFunction(tween.easingType, t)

lerp(v0, v1, t) == RAdd(RMul(v0, RSub(Num(1), t)), RMul(v1, t))

\* a variant of calculateTimeValue: A's position is not subtracted
calculateTimeValue_NoOffset(twA, twB, playheadPosition) ==
    LET tweenAPlayhead == twA.playheadPosition
        tweenBPlayhead == twB.playheadPosition
        dist == tweenBPlayhead - tweenAPlayhead
    IN  RDiv(Num(playheadPosition), Num(dist))

calculateTimeValue(twA, twB, playheadPosition) ==
    LET tweenAPlayhead == twA.playheadPosition
        tweenBPlayhead == twB.playheadPosition
        dist == tweenBPlayhead - tweenAPlayhead
    IN  RDiv(Num(playheadPosition - tweenAPlayhead), Num(dist))

\* a variant of ConstrainLow: if instead of while
ConstrainLow_Once(val) ==
    IF RLt(val, Num(-180)) THEN RAdd(val, Num(360)) ELSE val

\* while(val < -180) val += 360
RECURSIVE ConstrainLow(_)
ConstrainLow(val) ==
    IF RLt(val, Num(-180)) THEN ConstrainLow(RAdd(val, Num(360))) ELSE val

\* while(val > 180) val -= 360
RECURSIVE ConstrainHigh(_)
ConstrainHigh(val) ==
    IF RLt(Num(180), val) THEN ConstrainHigh(RSub(val, Num(360))) ELSE val

ConstrainRotation(val) == ConstrainHigh(ConstrainLow(val))

\* a variant of InterpTweenFunction: the tween function of the end tween
InterpTweenFunction_FromB(twA, twB, t) == getTweenFunction(twB, t)

\* the tween function the loop of interpolate applies to t
InterpTweenFunction(twA, twB, t) == getTweenFunction(twA, t)

\* a variant of InterpFullRotations: the fullRotations of the end tween
InterpFullRotations_FromB(twA, twB) == twB.fullRotations

\* the fullRotations the loop of interpolate adds to the end rotation
InterpFullRotations(twA, twB) == twA.fullRotations

\* a variant of InterpolateProp: valA and valB read from the wrong tween
InterpolateProp_Swapped(twA, twB, trA, trB, t, propName) ==
    LET tt == InterpTweenFunction(twA, twB, t)
        valA == trB[propName]
        valB == trA[propName]
    IN  IF propName = "rotation"
        THEN lerp(ConstrainRotation(valA),
                  RAdd(ConstrainRotation(valB), Num(InterpFullRotations(twA, twB) * 360)),
                  tt)
        ELSE lerp(valA, valB, tt)

\* one pass of the forEach of interpolate: the value stored for propName
InterpolateProp(twA, twB, trA, trB, t, propName) ==
    LET tt == InterpTweenFunction(twA, twB, t)
        valA == trA[propName]
        valB == trB[propName]
    IN  IF propName = "rotation"
        THEN lerp(ConstrainRotation(valA),
                  RAdd(ConstrainRotation(valB), Num(InterpFullRotations(twA, twB) * 360)),
                  tt)
        ELSE lerp(valA, valB, tt)

\* Wick.Tween.interpolate: the transformation of the tween it returns
InterpolateTransformation(twA, twB, trA, trB, playheadPosition) ==
    LET t == calculateTimeValue(twA, twB, playheadPosition)
    IN  [p \in PropNames |-> InterpolateProp(twA, twB, trA, trB, t, p)]

\* a variant of InterpolateTween: playheadPosition is not assigned
InterpolateTween_NoPosition(twA, twB, playheadPosition, ref) ==
    TweenConstructor(NoArgs, ref)

\* Wick.Tween.interpolate: the tween it returns, its transformation in slot ref
InterpolateTween(twA, twB, playheadPosition, ref) ==
    [TweenConstructor(NoArgs, ref) EXCEPT !.playheadPosition = playheadPosition]

\* tween.serialize(): the data object (the part Wick.Tween adds)
SerializeTween(tw, h) ==
    [playheadPosition |-> tw.playheadPosition,
     transformation   |-> TransformationValues(h[tw.transformation]),
     fullRotations    |-> tw.fullRotations,
     easingType       |-> tw.easingType]

\* a variant of DeserializeTween: fullRotations is not read
DeserializeTween_NoFullRotations(tw, d, ref) ==
    [playheadPosition |-> d.playheadPosition,
     transformation   |-> ref,
     fullRotations    |-> tw.fullRotations,
     easingType       |-> SetEasingType(tw.easingType, d.easingType)]

\* tween.deserialize(d): the fields of the tween afterwards, its new
\* transformation in slot ref
DeserializeTween(tw, d, ref) ==
    [playheadPosition |-> d.playheadPosition,
     transformation   |-> ref,
     fullRotations    |-> d.fullRotations,
     easingType       |-> SetEasingType(tw.easingType, d.easingType)]

\* a variant of ApplyTransforms: the clip is given the tween's own object
ApplyTransforms_NoClone(tw, c, h) ==
    [clip |-> [c EXCEPT !.transformation = tw.transformation],
     heap |-> [r \in DOMAIN h |->
                 IF r = c.transformation /\ r # tw.transformation THEN NoObject
                 ELSE h[r]]]

\* tween.applyTransformsToClip(clip): the clip and the heap afterwards; the
\* clone takes slot "clone", and the transformation the clip held before is
\* dropped when nothing else refers to it
ApplyTransforms(tw, c, h) ==
    [clip |-> [c EXCEPT !.transformation = "clone"],
     heap |-> [r \in DOMAIN h |->
                 IF r = "clone" THEN TransformationClone(h[tw.transformation])
                 ELSE IF r = c.transformation /\ r # tw.transformation THEN NoObject
                 ELSE h[r]]]

(* ------------------------------------------------------------------ *)
(* Wick.Project                                                         *)
(* ------------------------------------------------------------------ *)
\* null
Null == NoObject
\* the value setInterval returns for its n-th timer (n >= 1)
TimerID(n) == [timer |-> n]

\* the clips of a project: the root, two clips on its timeline, and a clip on
\* the timeline of the first of these
Clips == {"root", "clipA", "clipB", "clipC"}
ParentClip ==
    [c \in Clips \ {"root"} |-> IF c = "clipC" THEN "clipA" ELSE "root"]
\* clip.timeline.clips
TimelineClips(c) == {d \in Clips \ {"root"} : ParentClip[d] = c}

\* the fields the constructor of Wick.Project sets
PlayNew ==
    /\ tickIntervalID = Null
    /\ timers = {}
    /\ lastTimerID = 0
    /\ tickLog = <<>>
    /\ keysDown = <<>>
    /\ keysLastDown = <<>>

FocusNew ==
    /\ focus = "root"
    /\ pan = [x |-> 0, y |-> 0]
    /\ zoom = 1
    /\ selection = {}
    /\ playhead = [c \in Clips |-> 1]

\* the assets a project file may list
Assets == 1..MaxAssets

\* no call of fromWickFile yet
LoadNew ==
    /\ wickFile = NoObject
    /\ loadStep = "none"
    /\ assetStep = [a \in Assets |-> "none"]
    /\ loadedAssetCount = 0
    /\ callbacks = <<>>
    /\ fileCache = {}

\* no call of generateImageSequence yet; paper.view.autoUpdate is on
RenderNew ==
    /\ renderProject = NoObject
    /\ frameImages = <<>>
    /\ autoUpdate = TRUE
    /\ renderCallbacks = <<>>

\* a project nothing is done to
ProjectIdle == PlayNew /\ FocusNew /\ LoadNew /\ RenderNew

(* ------------------------------------------------------------------ *)
(* Inputs                                                               *)
(* ------------------------------------------------------------------ *)
Refs == {"A", "B", "interp", "clip", "clone"}

\* rotations of a start tween: two turns below the range, inside it, above it
StartRotations == {-900, 170, 190}
\* rotations of an end tween: inside the range, below it, two turns above it
EndRotations == {-170, -190, 900}

\* the channels of two start transformations and of an end transformation
\* (scaleY of the second start equals that of the end)
StartTransformations ==
    { [x |-> Num(0), y |-> Num(0), scaleX |-> Num(1), scaleY |-> Num(1), opacity |-> Num(1)],
      [x |-> Num(10), y |-> Num(-20), scaleX |-> Num(2), scaleY |-> Num(4), opacity |-> Rat(1, 4)] }

EndTransformations ==
    { [x |-> Num(-30), y |-> Num(50), scaleX |-> Rat(1, 3), scaleY |-> Num(4), opacity |-> Num(0)] }

WithRotation(tr, r) ==
    Transformation([x |-> tr.x, y |-> tr.y, scaleX |-> tr.scaleX, scaleY |-> tr.scaleY,
                    rotation |-> Num(r), opacity |-> tr.opacity])

EmptyHeap == [r \in Refs |-> NoObject]
\* call records the last operation and its arguments (the transformations of
\* the two tweens as they were when interpolate was called)
NoCall == [op |-> "none"]

\* two tweens of a frame, A before B, each with its own transformation
InitPair ==
    /\ \E pa \in 1..MaxPos, pb \in 1..MaxPos, ea \in VALID_EASING_TYPES,
          eb \in VALID_EASING_TYPES, fa \in 0..MaxFullRotations, fb \in {0, 1} :
          /\ pa < pb
          /\ tweenA = TweenConstructor([playheadPosition |-> pa, fullRotations |-> fa,
                                        easingType |-> ea], "A")
          /\ tweenB = TweenConstructor([playheadPosition |-> pb, fullRotations |-> fb,
                                        easingType |-> eb], "B")
    /\ \E ta \in StartTransformations, tb \in EndTransformations,
          ra \in StartRotations, rb \in EndRotations :
          heap = [EmptyHeap EXCEPT !["A"] = WithRotation(ta, ra),
                                   !["B"] = WithRotation(tb, rb)]
    /\ interpTween = NoObject
    /\ clip = NoObject
    /\ data = NoObject
    /\ call = NoCall
    /\ sweep = <<>>
    /\ ProjectIdle

(* ------------------------------------------------------------------ *)
(* Interpolation at any query position                                  *)
(* ------------------------------------------------------------------ *)
\* interpTween = Wick.Tween.interpolate(tweenA, tweenB, playheadPosition)
Interpolate ==
    \E playheadPosition \in 1..MaxPos :
        /\ interpTween' = InterpolateTween(tweenA, tweenB, playheadPosition, "interp")
        /\ heap' = [heap EXCEPT !["interp"] =
                        InterpolateTransformation(tweenA, tweenB, heap[tweenA.transformation],
                                                  heap[tweenB.transformation], playheadPosition)]
        /\ call' = [op |-> "interpolate", playheadPosition |-> playheadPosition,
                     trA |-> heap[tweenA.transformation], trB |-> heap[tweenB.transformation]]
        /\ UNCHANGED <<tweenA, tweenB, clip, data, sweep>>
        /\ UNCHANGED projectVars

NextInterp == Interpolate

SpecInterp == InitPair /\ [][NextInterp]_vars

(* ------------------------------------------------------------------ *)
(* Interpolation as the playhead steps from A's position to B's         *)
(* ------------------------------------------------------------------ *)
\* the position of the next call: A's position first, then one further each time
SweepPosition ==
    IF sweep = <<>> THEN tweenA.playheadPosition
    ELSE sweep[Len(sweep)].playheadPosition + 1

\* Wick.Tween.interpolate(tweenA, tweenB, SweepPosition); sweep keeps what the
\* calls returned, in order
SweepStep ==
    /\ SweepPosition <= tweenB.playheadPosition
    /\ interpTween' = InterpolateTween(tweenA, tweenB, SweepPosition, "interp")
    /\ heap' = [heap EXCEPT !["interp"] =
                    InterpolateTransformation(tweenA, tweenB, heap[tweenA.transformation],
                                              heap[tweenB.transformation], SweepPosition)]
    /\ sweep' = Append(sweep, [playheadPosition |-> interpTween'.playheadPosition,
                               transformation |-> heap'[interpTween'.transformation]])
    /\ call' = [op |-> "interpolate", playheadPosition |-> SweepPosition,
                 trA |-> heap[tweenA.transformation], trB |-> heap[tweenB.transformation]]
    /\ UNCHANGED <<tweenA, tweenB, clip, data>>
    /\ UNCHANGED projectVars

NextSweep == SweepStep

SpecSweep == InitPair /\ [][NextSweep]_vars

(* ------------------------------------------------------------------ *)
(* Properties of interpolate                                            *)
(* ------------------------------------------------------------------ *)
Called == call.op = "interpolate"
Result == heap[interpTween.transformation]
TrA == heap[tweenA.transformation]
TrB == heap[tweenB.transformation]
LinearChannels == {"x", "y", "scaleX", "scaleY", "opacity"}
Bracketed ==
    /\ tweenA.playheadPosition <= call.playheadPosition
    /\ call.playheadPosition <= tweenB.playheadPosition
StrictlyInside ==
    /\ tweenA.playheadPosition < call.playheadPosition
    /\ call.playheadPosition < tweenB.playheadPosition
\* t as the specification writes it
TimeValue ==
    Rat(call.playheadPosition - tweenA.playheadPosition,
        tweenB.playheadPosition - tweenA.playheadPosition)
\* a + (b - a) * u
Linear(a, b, u) == RAdd(a, RMul(RSub(b, a), u))
IsInteger(v) == v.den = 1
Congruent360(a, b) == IsInteger(RSub(a, b)) /\ RSub(a, b).num % 360 = 0
InRange180(v) == RLe(Num(-180), v) /\ RLe(v, Num(180))
\* the values congruent to v modulo 360 that lie in [-180, 180]
Normalized(v) == { RAdd(v, Num(360 * k)) : k \in -3..3 } \cap { Num(n) : n \in -180..180 }

\* C1 as stated: at A's position interpolate returns A's six channels exactly,
\* whatever the magnitude of A's rotation.
C1_BoundaryIdentityAnyRotation ==
    (Called /\ call.playheadPosition = tweenA.playheadPosition) =>
        \A p \in DOMAIN Result : Result[p] = TrA[p]

\* C1 as amended: at A's position interpolate returns A's x, y, scaleX, scaleY
\* and opacity exactly, and A's rotation brought into [-180, 180] by shifts of
\* 360, which is A's rotation exactly when that lies in [-180, 180].
C1_BoundaryIdentity ==
    (Called /\ call.playheadPosition = tweenA.playheadPosition) =>
        /\ \A p \in LinearChannels : Result[p] = TrA[p]
        /\ InRange180(Result.rotation)
        /\ Congruent360(Result.rotation, TrA.rotation)
        /\ InRange180(TrA.rotation) => Result.rotation = TrA.rotation

C1_Witness ==
    /\ Called
    /\ call.playheadPosition = tweenA.playheadPosition
    /\ TrA.rotation = Num(190)
    /\ Result.rotation = Num(-170)
    /\ Result.x = Num(10)

\* C4: with easing type 'none' the eased value tt equals t, and every channel
\* but rotation is valA + (valB - valA) * t.
C4_NoneIsLinear ==
    (Called /\ tweenA.easingType = "none") =>
        /\ InterpTweenFunction(tweenA, tweenB, TimeValue) = TimeValue
        /\ \A p \in LinearChannels : Result[p] = Linear(TrA[p], TrB[p], TimeValue)

C4_Witness ==
    /\ Called
    /\ tweenA.easingType = "none"
    /\ tweenB.easingType = "in"
    /\ StrictlyInside
    /\ TimeValue = Rat(1, 3)
    /\ Result.x = Rat(-10, 1)
    /\ TrA.x = Num(0)

\* C5: strictly between the two tweens, t = (position - A.position) /
\* (B.position - A.position), one easing function gives tt, each of x, y,
\* scaleX, scaleY and opacity is the linear interpolation of A's and B's value
\* of that channel at tt, and the result's playheadPosition is the query position.
C5_InterpolationFormula ==
    (Called /\ StrictlyInside) =>
        /\ interpTween.playheadPosition = call.playheadPosition
        /\ \E e \in VALID_EASING_TYPES :
              \A p \in LinearChannels :
                  Result[p] = Linear(TrA[p], TrB[p], TweenFunction(e, TimeValue))

C5_Witness ==
    /\ Called
    /\ StrictlyInside
    /\ call.playheadPosition = 2
    /\ tweenB.playheadPosition = 4
    /\ tweenA.easingType = "in-out"
    /\ Result.x # Linear(TrA.x, TrB.x, TimeValue)
    /\ Result.opacity = Rat(7, 9)

\* C6: the loops of interpolate finish and bring each end's rotation to a value
\* congruent to it modulo 360 in [-180, 180]; the destination is then offset by
\* 360 times the fullRotations of the start tween A; the result's rotation is
\* the linear interpolation of the two at tt; the rotations stored in A and B
\* are as they were before the call.
C6_RotationNormalization ==
    Called =>
        /\ \E nA \in Normalized(call.trA.rotation), nB \in Normalized(call.trB.rotation) :
              Result.rotation =
                  Linear(nA, RAdd(nB, Num(360 * tweenA.fullRotations)),
                         TweenFunction(tweenA.easingType, TimeValue))
        /\ TrA.rotation = call.trA.rotation
        /\ TrB.rotation = call.trB.rotation

C6_Witness ==
    /\ Called
    /\ StrictlyInside
    /\ TrA.rotation = Num(-900)
    /\ TrB.rotation = Num(900)
    /\ tweenA.fullRotations = 1
    /\ tweenB.fullRotations = 0
    /\ tweenA.easingType = "none"
    /\ TimeValue = Rat(1, 2)
    /\ Result.rotation = Num(180)

\* C7: the easing function is that of the start tween A: a call that differs
\* only in the easing type of B returns the same transformation.
C7_EasingPinnedToA ==
    Called =>
        \A e \in VALID_EASING_TYPES :
            InterpolateTransformation(tweenA, [tweenB EXCEPT !.easingType = e],
                                      TrA, TrB, call.playheadPosition) = Result

C7_Witness ==
    /\ Called
    /\ StrictlyInside
    /\ tweenA.easingType = "in"
    /\ tweenB.easingType = "out"
    /\ Result.x = Linear(TrA.x, TrB.x, EasingQuadraticIn(TimeValue))
    /\ Result.x # Linear(TrA.x, TrB.x, EasingQuadraticOut(TimeValue))

Between(v, a, b) == (RLe(a, v) /\ RLe(v, b)) \/ (RLe(b, v) /\ RLe(v, a))

\* C8: for a query position from A's to B's, the eased value tt lies in [0, 1]
\* and each of x, y, scaleX, scaleY and opacity of the result lies between A's
\* and B's value of that channel, inclusive.
C8_BracketedInRange ==
    (Called /\ Bracketed) =>
        /\ Between(InterpTweenFunction(tweenA, tweenB, TimeValue), Num(0), Num(1))
        /\ \A p \in LinearChannels : Between(Result[p], TrA[p], TrB[p])

C8_Witness ==
    /\ Called
    /\ StrictlyInside
    /\ tweenA.easingType = "out"
    /\ RLt(TrB.x, Result.x)
    /\ RLt(Result.x, TrA.x)
    /\ Result.scaleY = Num(4)

(* ------------------------------------------------------------------ *)
(* Properties of the sweep                                              *)
(* ------------------------------------------------------------------ *)
SweepRotation(i) == sweep[i].transformation.rotation
SweepComplete ==
    sweep # <<>> /\ sweep[Len(sweep)].playheadPosition = tweenB.playheadPosition

\* C3: from rotation 170 to rotation -170 with one full rotation, the rotation
\* starts at 170, never decreases from one position to the next, passes through
\* 180 and ends at a value congruent to -170 modulo 360.
C3_RotationWraparound ==
    (TrA.rotation = Num(170) /\ TrB.rotation = Num(-170) /\ tweenA.fullRotations = 1) =>
        /\ sweep # <<>> => SweepRotation(1) = Num(170)
        /\ \A i \in 1..(Len(sweep) - 1) : RLe(SweepRotation(i), SweepRotation(i + 1))
        /\ SweepComplete =>
              /\ Congruent360(SweepRotation(Len(sweep)), Num(-170))
              /\ \E i \in 1..(Len(sweep) - 1) :
                    RLe(SweepRotation(i), Num(180)) /\ RLe(Num(180), SweepRotation(i + 1))

C3_Witness ==
    /\ TrA.rotation = Num(170)
    /\ TrB.rotation = Num(-170)
    /\ tweenA.fullRotations = 1
    /\ tweenB.fullRotations = 0
    /\ SweepComplete
    /\ Len(sweep) = 3
    /\ SweepRotation(2) = Num(180)
    /\ SweepRotation(3) = Num(190)

(* ------------------------------------------------------------------ *)
(* The life of a tween: construction, easing type, serialization,       *)
(* application to a clip                                                *)
(* ------------------------------------------------------------------ *)
PlayheadArgs == {NoArgs} \cup {[playheadPosition |-> n] : n \in {-1, 0, 1, MaxPos}}
FullRotationsArgs == {NoArgs} \cup {[fullRotations |-> n] : n \in 0..MaxFullRotations}
EasingTypeArgs == {NoArgs} \cup {[easingType |-> e] : e \in VALID_EASING_TYPES \cup {"bounce"}}
TweenArgs == {p @@ f @@ e : p \in PlayheadArgs, f \in FullRotationsArgs, e \in EasingTypeArgs}

\* args.transformation: absent (a new Wick.Transformation()) or given
TransformationArgs ==
    {Transformation(NoArgs)} \cup {WithRotation(tr, 190) : tr \in EndTransformations}

\* a clip with a transformation of its own and no tween yet
InitTween ==
    /\ tweenA = NoObject
    /\ tweenB = NoObject
    /\ interpTween = NoObject
    /\ \E tr \in StartTransformations :
          heap = [EmptyHeap EXCEPT !["clip"] = WithRotation(tr, 170)]
    /\ clip = [transformation |-> "clip"]
    /\ data = NoObject
    /\ call = NoCall
    /\ sweep = <<>>
    /\ ProjectIdle

\* tweenA = new Wick.Tween(args)
NewTween ==
    \E args \in TweenArgs, tr \in TransformationArgs :
        /\ tweenA = NoObject
        /\ tweenA' = TweenConstructor(args, "A")
        /\ heap' = [heap EXCEPT !["A"] = tr]
        /\ call' = [op |-> "new"]
        /\ UNCHANGED <<tweenB, interpTween, clip, data, sweep>>
        /\ UNCHANGED projectVars

\* tweenA.easingType = easingType
AssignEasingType ==
    \E easingType \in VALID_EASING_TYPES \cup {"bounce"} :
        /\ tweenA # NoObject
        /\ tweenA' = [tweenA EXCEPT !.easingType = SetEasingType(@, easingType)]
        /\ call' = [op |-> "assign", easingType |-> easingType, old |-> tweenA.easingType]
        /\ UNCHANGED <<tweenB, interpTween, heap, clip, data, sweep>>
        /\ UNCHANGED projectVars

\* data = tweenA.serialize()
Serialize ==
    /\ tweenA # NoObject
    /\ data' = SerializeTween(tweenA, heap)
    /\ call' = [op |-> "serialize"]
    /\ UNCHANGED <<tweenA, tweenB, interpTween, heap, clip, sweep>>
    /\ UNCHANGED projectVars

\* tweenB = new Wick.Tween(); tweenB.deserialize(data)
Deserialize ==
    /\ data # NoObject
    /\ tweenB' = DeserializeTween(TweenConstructor(NoArgs, "B"), data, "B")
    /\ heap' = [heap EXCEPT !["B"] = Transformation(data.transformation)]
    /\ call' = [op |-> "deserialize", after |-> call.op]
    /\ UNCHANGED <<tweenA, interpTween, clip, data, sweep>>
    /\ UNCHANGED projectVars

\* tweenA.applyTransformsToClip(clip)
ApplyTransformsToClip ==
    /\ tweenA # NoObject
    /\ clip' = ApplyTransforms(tweenA, clip, heap).clip
    /\ heap' = ApplyTransforms(tweenA, clip, heap).heap
    /\ call' = [op |-> "apply"]
    /\ UNCHANGED <<tweenA, tweenB, interpTween, data, sweep>>
    /\ UNCHANGED projectVars

\* clip.transformation[propName] = 7, a change made to the clip by its owner
MutateClip ==
    \E propName \in {"x", "rotation"} :
        /\ heap' = [heap EXCEPT ![clip.transformation][propName] = Num(7)]
        /\ call' = [op |-> "mutate", tween |-> tweenA,
                    tr |-> IF tweenA = NoObject THEN NoObject ELSE heap[tweenA.transformation]]
        /\ UNCHANGED <<tweenA, tweenB, interpTween, clip, data, sweep>>
        /\ UNCHANGED projectVars

NextTween ==
    \/ NewTween
    \/ AssignEasingType
    \/ Serialize
    \/ Deserialize
    \/ ApplyTransformsToClip
    \/ MutateClip

SpecTween == InitTween /\ [][NextTween]_vars

(* ------------------------------------------------------------------ *)
(* Properties of the life of a tween                                    *)
(* ------------------------------------------------------------------ *)
\* C2: deserialize, on a fresh tween, of what serialize returned for a tween
\* with a valid easing type gives the same playheadPosition, the same six
\* transformation values, the same fullRotations and the same easingType.
C2_TweenRoundTrip ==
    (call.op = "deserialize" /\ call.after = "serialize"
        /\ tweenA.easingType \in VALID_EASING_TYPES) =>
        /\ tweenB.playheadPosition = tweenA.playheadPosition
        /\ \A p \in DOMAIN heap[tweenA.transformation] :
              heap[tweenB.transformation][p] = heap[tweenA.transformation][p]
        /\ tweenB.fullRotations = tweenA.fullRotations
        /\ tweenB.easingType = tweenA.easingType

C2_Witness ==
    /\ call.op = "deserialize"
    /\ call.after = "serialize"
    /\ tweenA.easingType = "in-out"
    /\ tweenA.fullRotations = 1
    /\ tweenA.playheadPosition = MaxPos
    /\ heap[tweenA.transformation].rotation = Num(190)
    /\ heap[tweenB.transformation].scaleX = Rat(1, 3)
    /\ tweenB.easingType = "in-out"

\* C9: after applyTransformsToClip the six channels of the clip's
\* transformation are the tween's, whatever they were before; the clip holds
\* another object than the tween, and a later change to the clip's
\* transformation leaves the tween's transformation as it was.
C9_WholesaleApplication ==
    /\ call.op = "apply" =>
          /\ \A p \in DOMAIN heap[tweenA.transformation] :
                heap[clip.transformation][p] = heap[tweenA.transformation][p]
          /\ clip.transformation # tweenA.transformation
    /\ (call.op = "mutate" /\ call.tween # NoObject) =>
          heap[tweenA.transformation] = call.tr

C9_Witness ==
    /\ call.op = "mutate"
    /\ tweenA # NoObject
    /\ clip.transformation = "clone"
    /\ heap["clone"].x = Num(7)
    /\ heap["clone"].rotation = Num(190)
    /\ heap[tweenA.transformation].x = Num(-30)
    /\ heap["clip"] = NoObject

\* C10: every playhead position a tween stores is a positive integer
\* (after construction with any arguments, after deserialize, and in the
\* tween interpolate returns).
C10_PlayheadPositive ==
    \A tw \in {tweenA, tweenB, interpTween} :
        tw # NoObject => (tw.playheadPosition \in Nat /\ tw.playheadPosition >= 1)

\* C16: after constructions with any easingType argument, assignments of
\* easingType and deserialize calls, the easingType of a tween is one of
\* 'none', 'in', 'out', 'in-out'; an assignment of another value leaves the
\* easingType the tween had.
C16_ValidEasingType ==
    /\ \A tw \in {tweenA, tweenB} \ {NoObject} : tw.easingType \in VALID_EASING_TYPES
    /\ (call.op = "assign" /\ call.easingType \notin VALID_EASING_TYPES) =>
          tweenA.easingType = call.old

(* ------------------------------------------------------------------ *)
(* Playback: play, stop, tick and the tick interval                     *)
(* ------------------------------------------------------------------ *)
\* what a clip's tick returns when no script failed
NoError == "null"
\* the errors a clip's tick may return
Errors == {"ReferenceError", "TypeError"}

\* clearInterval(id): nothing happens for null
ClearInterval(active, id) ==
    IF id = Null THEN active ELSE active \ {id.timer}

\* project.stop(): _tickIntervalID and the active timers afterwards
StopTimers(id, active) ==
    [tickIntervalID |-> Null, timers |-> ClearInterval(active, id)]

\* a variant of PlayTimers: the running interval is not stopped first
PlayTimers_NoStop(id, active, n) ==
    [tickIntervalID |-> TimerID(n), timers |-> active \cup {n}]

\* project.play(): _tickIntervalID and the active timers afterwards, n being
\* the timer setInterval creates
PlayTimers(id, active, n) ==
    LET stopped == IF id # Null THEN StopTimers(id, active)
                   ELSE [tickIntervalID |-> id, timers |-> active]
    IN  [tickIntervalID |-> TimerID(n), timers |-> stopped.timers \cup {n}]

\* project.tick(): what it returns when the focused clip's tick returns error,
\* and _keysLastDown afterwards, a copy of _keysDown
ProjectTick(error) == error
TickKeysLastDown(down) == <<>> \o down

\* a variant of TickCallback: no return after stop()
TickCallback_NoReturn(clipError) ==
    LET error == ProjectTick(clipError)
        head == <<[fn |-> "onBeforeTick"],
                  [fn |-> "tick", clipError |-> clipError, result |-> error]>>
    IN  IF error # NoError
        THEN head \o <<[fn |-> "onError", arg |-> error], [fn |-> "stop"],
                       [fn |-> "onAfterTick"]>>
        ELSE head \o <<[fn |-> "onAfterTick"]>>

\* the function play() hands to setInterval: the calls it makes, in order,
\* when the focused clip's tick returns clipError
TickCallback(clipError) ==
    LET error == ProjectTick(clipError)
        head == <<[fn |-> "onBeforeTick"],
                  [fn |-> "tick", clipError |-> clipError, result |-> error]>>
    IN  IF error # NoError
        THEN head \o <<[fn |-> "onError", arg |-> error], [fn |-> "stop"]>>
        ELSE head \o <<[fn |-> "onAfterTick"]>>

\* the firings recorded in tickLog
Firings == Len(SelectSeq(tickLog, LAMBDA e : e.fn = "onBeforeTick"))

\* a new project, with or without a selection
InitPlay ==
    /\ PlayNew
    /\ focus = "root"
    /\ pan = [x |-> 0, y |-> 0]
    /\ zoom = 1
    /\ selection \in {{}, {"clipA"}}
    /\ playhead = [c \in Clips |-> 1]
    /\ LoadNew
    /\ RenderNew
    /\ tweenA = NoObject
    /\ tweenB = NoObject
    /\ interpTween = NoObject
    /\ heap = EmptyHeap
    /\ clip = NoObject
    /\ data = NoObject
    /\ sweep = <<>>
    /\ call = NoCall

notPlayVars == <<tweenVars, focus, pan, zoom, playhead, loadVars, renderVars>>

\* project.play(args); tickLog keeps the calls made by the interval since
Play ==
    /\ lastTimerID < MaxTimers
    /\ LET after == PlayTimers(tickIntervalID, timers, lastTimerID + 1)
       IN  /\ tickIntervalID' = after.tickIntervalID
           /\ timers' = after.timers
    /\ lastTimerID' = lastTimerID + 1
    /\ selection' = {}
    /\ tickLog' = <<>>
    /\ call' = [op |-> "play", previous |-> tickIntervalID, before |-> timers]
    /\ UNCHANGED <<keysDown, keysLastDown>>
    /\ UNCHANGED notPlayVars

\* project.stop()
Stop ==
    /\ LET after == StopTimers(tickIntervalID, timers)
       IN  /\ tickIntervalID' = after.tickIntervalID
           /\ timers' = after.timers
    /\ call' = [op |-> "stop", previous |-> tickIntervalID]
    /\ UNCHANGED <<lastTimerID, tickLog, selection, keysDown, keysLastDown>>
    /\ UNCHANGED notPlayVars

\* an active timer fires: the function given to setInterval runs
IntervalFires ==
    \E n \in timers, clipError \in {NoError} \cup Errors :
        /\ Firings < MaxTicks
        /\ LET calls == TickCallback(clipError)
               stops == \E i \in DOMAIN calls : calls[i].fn = "stop"
               after == IF stops THEN StopTimers(tickIntervalID, timers)
                        ELSE [tickIntervalID |-> tickIntervalID, timers |-> timers]
           IN  /\ tickLog' = tickLog \o SelectSeq(calls, LAMBDA e : e.fn # "stop")
               /\ tickIntervalID' = after.tickIntervalID
               /\ timers' = after.timers
        /\ keysLastDown' = TickKeysLastDown(keysDown)
        /\ call' = [op |-> "fire", timer |-> n]
        /\ UNCHANGED <<lastTimerID, selection, keysDown>>
        /\ UNCHANGED notPlayVars

\* project.keysDown = keys
SetKeysDown ==
    \E keys \in {<<>>, <<"a">>} :
        /\ keysDown # keys
        /\ keysDown' = keys
        /\ call' = [op |-> "keysDown"]
        /\ UNCHANGED <<tickIntervalID, timers, lastTimerID, tickLog, keysLastDown, selection>>
        /\ UNCHANGED notPlayVars

NextPlay ==
    \/ Play
    \/ SetKeysDown
    \/ Stop
    \/ IntervalFires

SpecPlay == InitPlay /\ [][NextPlay]_vars

(* ------------------------------------------------------------------ *)
(* Properties of playback                                               *)
(* ------------------------------------------------------------------ *)
\* the calls of the k-th firing in tickLog
FiringCalls(k) == SubSeq(tickLog, 3 * k - 2, 3 * k)
Errored(k) == FiringCalls(k)[2].result # NoError

C15_SingleTickTimer ==
    /\ Cardinality(timers) <= 1
    /\ tickIntervalID = Null <=> timers = {}
    /\ tickIntervalID # Null => timers = {tickIntervalID.timer}
    /\ call.op = "play" =>
          /\ call.previous # Null => call.previous.timer \notin timers
          /\ timers = {lastTimerID}
    /\ call.op = "stop" => tickIntervalID = Null

C15_Witness ==
    /\ call.op = "play"
    /\ call.previous = TimerID(1)
    /\ call.before = {1}
    /\ timers = {2}
    /\ tickIntervalID = TimerID(2)

(* ------------------------------------------------------------------ *)
(* Wick.Project.fromWickFile                                            *)
(* ------------------------------------------------------------------ *)
\* the project files: whether the zip loads; whether it holds project.json,
\* whether that can be read and parsed; the assets list of the project data
\* (no object when projectData.assets is undefined, else its length);
\* the assets whose file the zip lacks; whether Wick.Project.deserialize
\* returns a project for the data or throws
WickFiles ==
    { [zip |-> z, json |-> j, assets |-> n, missing |-> m, deserializes |-> d] :
        z \in BOOLEAN, j \in {"absent", "unreadable", "invalid", "ok"},
        n \in {NoObject} \cup {[length |-> k] : k \in 0..MaxAssets},
        m \in SUBSET Assets, d \in BOOLEAN }

\* projectData.assets.length
AssetsLength(file) == file.assets.length

\* the assets whose file forEach reaches before it ends or throws
StartedAssets(file) ==
    {a \in 1..AssetsLength(file) : \A b \in file.missing : a < b}

tweenIdleVars == <<tweenVars, call, playVars, focusVars, renderVars>>

InitLoad ==
    /\ PlayNew
    /\ FocusNew
    /\ LoadNew
    /\ RenderNew
    /\ tweenA = NoObject
    /\ tweenB = NoObject
    /\ interpTween = NoObject
    /\ heap = EmptyHeap
    /\ clip = NoObject
    /\ data = NoObject
    /\ sweep = <<>>
    /\ call = NoCall

\* Wick.Project.fromWickFile(file, callback): zip.loadAsync(file) is under way
FromWickFile ==
    \E file \in WickFiles :
        /\ loadStep = "none"
        /\ file.assets # NoObject => file.missing \subseteq 1..AssetsLength(file)
        /\ file.assets = NoObject => file.missing = {}
        /\ wickFile' = file
        /\ loadStep' = "loadAsync"
        /\ UNCHANGED <<assetStep, loadedAssetCount, callbacks, fileCache>>
        /\ UNCHANGED tweenIdleVars

\* zip.loadAsync rejects: the catch of the outer chain calls callback(null)
ZipFails ==
    /\ loadStep = "loadAsync"
    /\ ~wickFile.zip
    /\ callbacks' = Append(callbacks, "null")
    /\ loadStep' = "caught"
    /\ UNCHANGED <<wickFile, assetStep, loadedAssetCount, fileCache>>
    /\ UNCHANGED tweenIdleVars

\* zip.loadAsync resolves: the outer then reads project.json; without that
\* file the read throws, and the catch of the outer chain calls callback(null)
ZipLoads ==
    /\ loadStep = "loadAsync"
    /\ wickFile.zip
    /\ IF wickFile.json = "absent"
       THEN /\ callbacks' = Append(callbacks, "null")
            /\ loadStep' = "caught"
       ELSE /\ callbacks' = callbacks
            /\ loadStep' = "readJSON"
    /\ UNCHANGED <<wickFile, assetStep, loadedAssetCount, fileCache>>
    /\ UNCHANGED tweenIdleVars

\* async('text') rejects: the inner chain has no catch and the outer then
\* did not return it, so nothing is called
JSONFails ==
    /\ loadStep = "readJSON"
    /\ wickFile.json = "unreadable"
    /\ loadStep' = "unhandled"
    /\ UNCHANGED <<wickFile, assetStep, loadedAssetCount, callbacks, fileCache>>
    /\ UNCHANGED tweenIdleVars

\* async('text') resolves: the inner then parses the data and either ends at
\* once (no assets) or starts the load of every asset file
JSONLoads ==
    /\ loadStep = "readJSON"
    /\ wickFile.json \in {"invalid", "ok"}
    /\ loadedAssetCount' = 0
    /\ IF wickFile.json = "invalid" \/ wickFile.assets = NoObject
       THEN \* JSON.parse throws, or assets.forEach of undefined throws
            /\ loadStep' = "unhandled"
            /\ UNCHANGED <<assetStep, callbacks>>
       ELSE IF AssetsLength(wickFile) = 0
       THEN IF wickFile.deserializes
            THEN /\ callbacks' = Append(callbacks, "project")
                 /\ loadStep' = "returned"
                 /\ UNCHANGED assetStep
            ELSE /\ loadStep' = "unhandled"
                 /\ UNCHANGED <<assetStep, callbacks>>
       ELSE /\ assetStep' = [a \in Assets |->
                                IF a \in StartedAssets(wickFile) THEN "async" ELSE "none"]
            /\ loadStep' = IF wickFile.missing = {} THEN "returned" ELSE "unhandled"
            /\ UNCHANGED callbacks
    /\ UNCHANGED <<wickFile, fileCache>>
    /\ UNCHANGED tweenIdleVars

\* assetFile.async('base64') resolves: then adds the file to the cache
AssetLoads ==
    \E a \in Assets :
        /\ assetStep[a] = "async"
        /\ fileCache' = fileCache \cup {a}
        /\ assetStep' = [assetStep EXCEPT ![a] = "settled"]
        /\ UNCHANGED <<wickFile, loadStep, loadedAssetCount, callbacks>>
        /\ UNCHANGED tweenIdleVars

\* assetFile.async('base64') rejects: catch calls callback(null)
AssetFails ==
    \E a \in Assets :
        /\ assetStep[a] = "async"
        /\ callbacks' = Append(callbacks, "null")
        /\ assetStep' = [assetStep EXCEPT ![a] = "settled"]
        /\ UNCHANGED <<wickFile, loadStep, loadedAssetCount, fileCache>>
        /\ UNCHANGED tweenIdleVars

\* finally, after then or catch: count the asset, and with the last one
\* deserialize the project and call callback(project)
AssetFinally ==
    \E a \in Assets :
        /\ assetStep[a] = "settled"
        /\ assetStep' = [assetStep EXCEPT ![a] = "finished"]
        /\ loadedAssetCount' = loadedAssetCount + 1
        /\ IF loadedAssetCount' = AssetsLength(wickFile) /\ wickFile.deserializes
           THEN callbacks' = Append(callbacks, "project")
           ELSE callbacks' = callbacks
        /\ UNCHANGED <<wickFile, loadStep, fileCache>>
        /\ UNCHANGED tweenIdleVars

NextLoad ==
    \/ FromWickFile
    \/ ZipFails
    \/ ZipLoads
    \/ JSONFails
    \/ JSONLoads
    \/ AssetLoads
    \/ AssetFails
    \/ AssetFinally

SpecLoad == InitLoad /\ [][NextLoad]_vars

(* ------------------------------------------------------------------ *)
(* Properties of fromWickFile                                           *)
(* ------------------------------------------------------------------ *)
\* every promise of the call has settled and every handler has run
LoadSettled ==
    /\ loadStep \in {"caught", "unhandled", "returned"}
    /\ \A a \in Assets : assetStep[a] \in {"none", "finished"}

\* the zip, project.json and every asset file loaded
AllLoaded ==
    /\ wickFile.zip
    /\ wickFile.json = "ok"
    /\ wickFile.assets # NoObject
    /\ wickFile.missing = {}
    /\ fileCache = 1..AssetsLength(wickFile)

\* C12: fromWickFile calls its callback exactly once per call, in every order
\* of the asset loads: with the project when the zip, project.json and all
\* asset files load, and with null when loading fails.
C12_CallbackExactlyOnce ==
    /\ Len(callbacks) <= 1
    /\ LoadSettled =>
          /\ Len(callbacks) = 1
          /\ callbacks[1] = IF AllLoaded THEN "project" ELSE "null"

(* ------------------------------------------------------------------ *)
(* Wick.Project.focus                                                   *)
(* ------------------------------------------------------------------ *)
\* the largest playhead position the timelines are moved to
MaxPlayhead == 2

\* the objects a selection may hold: clips and a path
Selectable == {"clipA", "clipC", "path"}

\* view, selection and playheads of the project as one value
FocusState == [focus |-> focus, pan |-> pan, zoom |-> zoom,
               selection |-> selection, playhead |-> playhead]

\* project.recenter()
Recenter(p) == [p EXCEPT !.pan = [x |-> 0, y |-> 0], !.zoom = 1]

\* focus.timeline.clips.forEach(subclip => subclip.timeline.playheadPosition = 1)
ResetSubclips(ph, c) ==
    [d \in Clips |-> IF d \in TimelineClips(c) THEN 1 ELSE ph[d]]

\* the setter without the comparison of the old and the new focus
SetFocus_Always(p, newFocus) ==
    LET moved == [p EXCEPT !.focus = newFocus,
                           !.playhead = ResetSubclips(p.playhead, newFocus)]
    IN  [Recenter(moved) EXCEPT !.selection = {}]

\* project.focus = newFocus
SetFocus(p, newFocus) ==
    LET moved == [p EXCEPT !.focus = newFocus,
                           !.playhead = ResetSubclips(p.playhead, newFocus)]
    IN  IF p.focus # newFocus
        THEN [Recenter(moved) EXCEPT !.selection = {}]
        ELSE moved

\* selection.getSelectedObject(): the object when exactly one is selected
SelectedObject(sel) ==
    IF Cardinality(sel) = 1 THEN CHOOSE o \in sel : TRUE ELSE "null"

\* the project becomes the state p; op and the state before are recorded
Becomes(p, op) ==
    /\ focus' = p.focus
    /\ pan' = p.pan
    /\ zoom' = p.zoom
    /\ selection' = p.selection
    /\ playhead' = p.playhead
    /\ call' = [op |-> op, before |-> FocusState]

notFocusVars == <<tweenVars, playVars, loadVars, renderVars>>

InitFocus ==
    /\ ProjectIdle
    /\ tweenA = NoObject
    /\ tweenB = NoObject
    /\ interpTween = NoObject
    /\ heap = EmptyHeap
    /\ clip = NoObject
    /\ data = NoObject
    /\ sweep = <<>>
    /\ call = NoCall

\* project.focus = c
AssignFocus ==
    \E c \in Clips :
        /\ Becomes(SetFocus(FocusState, c), "focus")
        /\ UNCHANGED notFocusVars

\* project.focusTimelineOfSelectedClip()
FocusTimelineOfSelectedClip ==
    /\ IF SelectedObject(selection) \in Clips
       THEN Becomes(SetFocus(FocusState, SelectedObject(selection)), "focus")
       ELSE Becomes(FocusState, "focusSelected")
    /\ UNCHANGED notFocusVars

\* project.focusTimelineOfParentClip()
FocusTimelineOfParentClip ==
    /\ IF focus # "root"
       THEN Becomes(SetFocus(FocusState, ParentClip[focus]), "focus")
       ELSE Becomes(FocusState, "focusParent")
    /\ UNCHANGED notFocusVars

\* project.recenter()
RecenterView ==
    /\ Becomes(Recenter(FocusState), "recenter")
    /\ UNCHANGED notFocusVars

\* project.pan = {x: x, y: 0}; project.zoom = z
MoveView ==
    \E x \in {0, 1}, z \in {1, 2} :
        /\ <<x, z>> # <<pan.x, zoom>>
        /\ Becomes([FocusState EXCEPT !.pan = [x |-> x, y |-> 0], !.zoom = z], "view")
        /\ UNCHANGED notFocusVars

\* project.selection.select(o) or deselect(o)
Select ==
    \E o \in Selectable :
        /\ Becomes([FocusState EXCEPT !.selection =
                       IF o \in selection THEN selection \ {o}
                       ELSE selection \cup {o}], "select")
        /\ UNCHANGED notFocusVars

\* c.timeline.playheadPosition = q
MovePlayhead ==
    \E c \in Clips, q \in 1..MaxPlayhead :
        /\ playhead[c] # q
        /\ Becomes([FocusState EXCEPT !.playhead[c] = q], "playhead")
        /\ UNCHANGED notFocusVars

NextFocus ==
    \/ AssignFocus
    \/ FocusTimelineOfSelectedClip
    \/ FocusTimelineOfParentClip
    \/ RecenterView
    \/ MoveView
    \/ Select
    \/ MovePlayhead

SpecFocus == InitFocus /\ [][NextFocus]_vars

\* C13: after the focus is set, to a clip other than the focused one: pan is
\* (0, 0), zoom is 1 and the selection is empty; to the focused clip: pan, zoom
\* and selection are as before; in both cases every subclip of the new focus
\* has playhead 1 and the playhead of the new focus itself is as before.
C13_FocusChange ==
    call.op = "focus" =>
        /\ focus # call.before.focus =>
              /\ pan = [x |-> 0, y |-> 0]
              /\ zoom = 1
              /\ selection = {}
        /\ focus = call.before.focus =>
              /\ pan = call.before.pan
              /\ zoom = call.before.zoom
              /\ selection = call.before.selection
        /\ \A d \in TimelineClips(focus) : playhead[d] = 1
        /\ playhead[focus] = call.before.playhead[focus]

\* the focus is set to the clip that is focused already, with a moved view, a
\* selection, a subclip that was not at 1 and its own playhead at 2
C13_Witness ==
    /\ call.op = "focus"
    /\ focus = "clipA"
    /\ call.before.focus = "clipA"
    /\ pan.x = 1
    /\ zoom = 2
    /\ selection = {"path"}
    /\ call.before.playhead["clipC"] = 2
    /\ playhead["clipA"] = 2

(* ------------------------------------------------------------------ *)
(* Wick.Project.generateImageSequence                                   *)
(* ------------------------------------------------------------------ *)
\* the longest root timeline that is rendered
MaxLength == 3

\* window.devicePixelRatio
PixelRatios == {1, 2}

\* nothing is loading
NotLoading == 0

\* this.clone() followed by the initial state the method gives the clone, for
\* a root timeline of the given length
RenderClone(p, length, ratio) ==
    LET focused == SetFocus(p, "root")
    IN  [focus |-> focused.focus,
         selection |-> focused.selection,
         playhead |-> [focused.playhead EXCEPT !["root"] = 1],
         length |-> length,
         zoom |-> Rat(1, ratio),
         pan |-> [x |-> 0, y |-> 0],
         loading |-> NotLoading]

\* renderFrame(): the canvas is rendered at the playhead and the image of it
\* starts to load
RenderFrame(project) ==
    [project EXCEPT !.loading = project.playhead[project.focus]]

\* frameImage.onload
ImageOnload(project, images) ==
    LET pushed == Append(images, project.loading)
    IN  IF project.playhead[project.focus] >= project.length
        THEN [project |-> [project EXCEPT !.loading = NotLoading],
              frameImages |-> pushed,
              done |-> TRUE]
        ELSE [project |-> RenderFrame([project EXCEPT
                              !.playhead[project.focus] = @ + 1]),
              frameImages |-> pushed,
              done |-> FALSE]

notRenderVars == <<tweenVars, playVars, focusVars, loadVars>>

\* a project whose focus and root playhead have been moved
InitRender ==
    /\ PlayNew
    /\ LoadNew
    /\ RenderNew
    /\ focus \in Clips
    /\ pan = [x |-> 0, y |-> 0]
    /\ zoom = 1
    /\ selection = {}
    /\ playhead \in {ph \in [Clips -> 1..MaxLength] :
                        \A c \in Clips \ {"root"} : ph[c] = 1}
    /\ tweenA = NoObject
    /\ tweenB = NoObject
    /\ interpTween = NoObject
    /\ heap = EmptyHeap
    /\ clip = NoObject
    /\ data = NoObject
    /\ sweep = <<>>
    /\ call = NoCall

\* project.generateImageSequence(args, callback), for a project whose root
\* timeline has the given length
GenerateImageSequence ==
    \E length \in 0..MaxLength, ratio \in PixelRatios :
        /\ renderProject = NoObject
        /\ renderProject' = RenderFrame(RenderClone(FocusState, length, ratio))
        /\ autoUpdate' = FALSE
        /\ frameImages' = <<>>
        /\ call' = [op |-> "generateImageSequence", length |-> length]
        /\ UNCHANGED renderCallbacks
        /\ UNCHANGED notRenderVars

\* the image of the frame has loaded: frameImage.onload runs
ImageLoads ==
    /\ renderProject # NoObject
    /\ renderProject.loading # NotLoading
    /\ LET after == ImageOnload(renderProject, frameImages)
       IN  /\ renderProject' = after.project
           /\ frameImages' = after.frameImages
           /\ autoUpdate' = IF after.done THEN TRUE ELSE autoUpdate
           /\ renderCallbacks' = IF after.done
                                 THEN Append(renderCallbacks, after.frameImages)
                                 ELSE renderCallbacks
    /\ call' = [op |-> "onload"]
    /\ UNCHANGED notRenderVars

NextRender ==
    \/ GenerateImageSequence
    \/ ImageLoads

SpecRender == InitRender /\ [][NextRender]_vars

\* the playhead positions 1, 2, ..., n
Positions(n) == [i \in 1..n |-> i]

\* C14: generateImageSequence ends with exactly one call of its callback, with
\* one image per frame of the root timeline, taken at the playhead positions
\* 1, 2, ..., timeline.length in this order; the playhead of the clone never
\* exceeds timeline.length; paper.view.autoUpdate is false while frames are
\* rendered and true when the callback is called.
C14_ImageSequence ==
    renderProject # NoObject =>
        /\ Len(renderCallbacks) <= 1
        /\ renderProject.playhead["root"] <= renderProject.length
        /\ frameImages = Positions(Len(frameImages))
        /\ Len(frameImages) <= renderProject.length
        /\ renderProject.loading = NotLoading =>
              /\ renderCallbacks = <<Positions(renderProject.length)>>
              /\ autoUpdate = TRUE
        /\ renderProject.loading # NotLoading =>
              /\ renderCallbacks = <<>>
              /\ autoUpdate = FALSE

\* the same for root timelines with at least one frame
C14_ImageSequenceOfFrames ==
    (renderProject # NoObject /\ renderProject.length >= 1) => C14_ImageSequence


====
